---- MODULE Spec2Model ----
(***************************************************************************)
(* CPCovid-Synth: the SNR comparison tools (include/comparison_tools/     *)
(* SNR.py), the axis formatting helpers (display/formattingFigures.py)    *)
(* and the control flow of the R-estimate figures (display/               *)
(* display_figures.py).                                                   *)
(*                                                                        *)
(* Arrays are sequences; Python index i is TLA+ index i + 1.              *)
(* Reals are exact: a series holds integers, a power ratio is a fraction  *)
(* in lowest terms, and a value in dB is kept as the fraction under the   *)
(* logarithm. IEEE-754 infinities and NaN, which numpy produces on        *)
(* division by zero, are explicit.                                        *)
(***************************************************************************)
EXTENDS Integers, Sequences, FiniteSets, TLC

VARIABLES
    \* --- SNR.py: one call of one of the four functions
    op,           \* "SNR" | "MC" | "ByDep" | "Mean" | "none"
    groundTruth,  \* 1-D series, or 2-D array (sequence of rows)
    estimation,   \* 1-D series, or 2-D array (draws or units)
    pc,           \* "start" | "bydep" | "loop" | "tail" | "done" | "failed"
    k,            \* loop variable (draw / d), Python value
    acc,          \* SNREstim / indicators
    sqFrom,       \* first Python index of the squared-error sum of the last term
    computed,     \* number of SNR terms computed so far
    result,       \* returned value
    err,          \* "none" or the exception that ended the call
    \* --- formattingFigures.py: one call of one of the two helpers
    fn,           \* "locator" | "ylimit" | "none"
    days,         \* len(formattedDates)
    firstDate,    \* day-of-month of formattedDates[0]
    Ydata,        \* series given to adaptiveYLimit
    axisPc,       \* "start" | "done"
    axisResult,   \* returned value
    \* --- display_figures.py: one call of display_REstim / display_REstim2D
    fig,          \* the arguments of the call (a record)
    figPc,        \* "start" | "data" | "estim" | "truth" | "format" | "done" | "failed"
    plotted,      \* the plot calls made so far, in order
    RTrueCropped, \* the ground-truth series handed to the last plot of RTrue
    saved,        \* fig.savefig was called
    returned,     \* the (fig, ax, formattedDates) result was returned
    figErr        \* "none" or the exception that ended the call

snrVars  == <<op, groundTruth, estimation, pc, k, acc, sqFrom, computed, result, err>>
axisVars == <<fn, days, firstDate, Ydata, axisPc, axisResult>>
figVars  == <<fig, figPc, plotted, RTrueCropped, saved, returned, figErr>>
vars     == <<snrVars, axisVars, figVars>>

\* ------------------------------------------------------------- bounds
MaxDays  == 5   \* longest 1-D series given to SignaltoNoiseRatio
MaxCells == 4   \* most entries of a 2-D array (rows * columns)

\* ------------------------------------------------------------- helpers
Abs(x) == IF x < 0 THEN -x ELSE x

RECURSIVE GCD(_, _)
GCD(a, b) == IF b = 0 THEN a ELSE GCD(b, a % b)

RECURSIVE Pow(_, _)
Pow(b, e) == IF e = 0 THEN 1 ELSE b * Pow(b, e - 1)

\* np.sum(np.abs(b[from:] - a[from:])), from a TLA+ index
RECURSIVE SumAbsDiff(_, _, _)
SumAbsDiff(a, b, from) ==
    IF from > Len(a) THEN 0
    ELSE Abs(b[from] - a[from]) + SumAbsDiff(a, b, from + 1)

normOrder == 2

\* np.sum(np.abs(b[from:] - a[from:]) ** normOrder)
RECURSIVE SumPowDiff(_, _, _)
SumPowDiff(a, b, from) ==
    IF from > Len(a) THEN 0
    ELSE Pow(Abs(b[from] - a[from]), normOrder) + SumPowDiff(a, b, from + 1)

\* np.sum(np.abs(a) ** normOrder)
RECURSIVE SumPow(_, _)
SumPow(a, from) ==
    IF from > Len(a) THEN 0
    ELSE Pow(Abs(a[from]), normOrder) + SumPow(a, from + 1)

\* ------------------------------------------------------------- dB values
NaN  == [kind |-> "nan"]
PInf == [kind |-> "pinf"]
NInf == [kind |-> "ninf"]
\* (10 / div) * log10(num / den), num, den, div >= 1
Fin(num, den, div) ==
    LET g == GCD(num, den) IN [kind |-> "fin", num |-> num \div g, den |-> den \div g, div |-> div]
ZeroDb == Fin(1, 1, 1)    \* 0.0, as np.zeros gives

\* 10 * np.log10(p / q) for p, q >= 0, with numpy's division by zero
TenLog10(p, q) ==
    IF q = 0 THEN (IF p = 0 THEN NaN ELSE PInf)
    ELSE IF p = 0 THEN NInf
    ELSE Fin(p, q, 1)

\* x + y in IEEE-754; both finite values have div = 1
DbAdd(x, y) ==
    IF x.kind = "nan" \/ y.kind = "nan" THEN NaN
    ELSE IF x.kind = "pinf" THEN (IF y.kind = "ninf" THEN NaN ELSE PInf)
    ELSE IF x.kind = "ninf" THEN (IF y.kind = "pinf" THEN NaN ELSE NInf)
    ELSE IF y.kind # "fin" THEN y
    ELSE Fin(x.num * y.num, x.den * y.den, 1)

\* np.sum(s)
RECURSIVE DbSum(_, _)
DbSum(s, from) ==
    IF from > Len(s) THEN ZeroDb ELSE DbAdd(s[from], DbSum(s, from + 1))

\* (1 / n) * x, n >= 1
DbScale(n, x) ==
    IF x.kind # "fin" THEN x
    ELSE IF x.num = x.den THEN ZeroDb
    ELSE [x EXCEPT !.div = x.div * n]

\* x == y in IEEE-754 (NaN equals nothing)
DbEq(x, y) ==
    IF x.kind = "nan" \/ y.kind = "nan" THEN FALSE
    ELSE IF x.kind # "fin" \/ y.kind # "fin" THEN x.kind = y.kind
    ELSE Pow(x.num, y.div) * Pow(y.den, x.div) = Pow(y.num, x.div) * Pow(x.den, y.div)

\* np.std(s) up to its sign class: "zero", "pos" or "nan"
StdClass(s) ==
    IF \E i \in 1..Len(s) : s[i].kind # "fin" THEN "nan"
    ELSE IF \A i \in 1..Len(s) : DbEq(s[i], s[1]) THEN "zero"
    ELSE "pos"

\* ------------------------------------------------------------- SNR.py
OutlierRatio == 100000

\* line 15: (estimation[0] - groundTruth[0]) / errorMean > 100000, where
\* errorMean = S / (N - 1) is 0/0 = NaN for N = 1 and the quotient by a zero
\* errorMean is +inf, -inf or NaN by the sign of the numerator
ExceedsOutlierRatio(gt, est) ==
    LET diff == est[1] - gt[1]
        S    == SumAbsDiff(gt, est, 2)
        n1   == Len(gt) - 1
    IN  IF n1 = 0 THEN FALSE
        ELSE IF S = 0 THEN diff > 0
        ELSE diff * n1 > OutlierRatio * S

\* [err, from, value]: the exception raised (or "none"), the first Python index
\* of the squared-error sum, and the value returned
SignaltoNoiseRatio(gt, est) ==
    IF Len(gt) # Len(est)
    THEN [err |-> "AssertionError", from |-> 0, value |-> NaN]
    ELSE LET from == IF ExceedsOutlierRatio(gt, est) THEN 1 ELSE 0
             SquaredError == SumPowDiff(gt, est, from + 1)
         IN  [err |-> "none", from |-> from,
              value |-> TenLog10(SumPow(gt, 1), SquaredError)]

\* np.shape of a 2-D array
Shape(a) == <<Len(a), Len(a[1])>>

\* lines 32-33
DrawsAgree(gt, ests) == Shape(ests)[2] = Len(gt)

\* the per-row length left unchecked
ShapesAgree_RowsOnly(gt, est) == Shape(est)[1] = Shape(gt)[1]

\* lines 47-49 and 63-65
ShapesAgree(gt, est) ==
    /\ Shape(est)[1] = Shape(gt)[1]
    /\ Shape(est)[2] = Shape(gt)[2]

\* every unit computed on the first row
UnitSNR_FirstRow(gt, est, d) == SignaltoNoiseRatio(gt[1], est[1])

\* lines 37 and 53: the term of row (draw) d, a Python index
RowSNR(gt, est, d) == SignaltoNoiseRatio(gt, est[d + 1])
UnitSNR(gt, est, d) == SignaltoNoiseRatio(gt[d + 1], est[d + 1])

\* line 38
MeanAndError(SNREstim, nbDraws) ==
    <<DbScale(nbDraws, DbSum(SNREstim, 1)), StdClass(SNREstim)>>

\* line 70
MeanOfIndicators(indicatorsByDep, nbDeps) == DbScale(nbDeps, DbSum(indicatorsByDep, 1))

NoResult == [kind |-> "none"]
Zeros(n) == [i \in 1..n |-> ZeroDb]

Fail(e) ==
    /\ pc' = "failed"
    /\ err' = e
    /\ UNCHANGED <<k, acc, sqFrom, computed, result>>

\* SignaltoNoiseRatio called directly
SNR_Call ==
    /\ op = "SNR" /\ pc = "start"
    /\ LET r == SignaltoNoiseRatio(groundTruth, estimation)
       IN  IF r.err # "none" THEN Fail(r.err)
           ELSE /\ pc' = "done"
                /\ sqFrom' = r.from
                /\ computed' = computed + 1
                /\ result' = r.value
                /\ UNCHANGED <<k, acc, err>>
    /\ UNCHANGED <<op, groundTruth, estimation, axisVars, figVars>>

\* SignaltoNoiseRatioMC, lines 32-35
MC_Enter ==
    /\ op = "MC" /\ pc = "start"
    /\ IF ~DrawsAgree(groundTruth, estimation) THEN Fail("AssertionError")
       ELSE /\ pc' = "loop"
            /\ k' = 0
            /\ acc' = Zeros(Shape(estimation)[1])
            /\ UNCHANGED <<sqFrom, computed, result, err>>
    /\ UNCHANGED <<op, groundTruth, estimation, axisVars, figVars>>

\* lines 36-37, one draw
MC_Draw ==
    /\ op = "MC" /\ pc = "loop" /\ k < Shape(estimation)[1]
    /\ LET r == RowSNR(groundTruth, estimation, k)
       IN  IF r.err # "none" THEN Fail(r.err)
           ELSE /\ acc' = [acc EXCEPT ![k + 1] = r.value]
                /\ k' = k + 1
                /\ sqFrom' = r.from
                /\ computed' = computed + 1
                /\ UNCHANGED <<pc, result, err>>
    /\ UNCHANGED <<op, groundTruth, estimation, axisVars, figVars>>

\* line 38
MC_Return ==
    /\ op = "MC" /\ pc = "loop" /\ k = Shape(estimation)[1]
    /\ pc' = "done"
    /\ result' = MeanAndError(acc, Shape(estimation)[1])
    /\ UNCHANGED <<k, acc, sqFrom, computed, err>>
    /\ UNCHANGED <<op, groundTruth, estimation, axisVars, figVars>>

\* SNRMean_indic, lines 63-65, then the call of line 67
Mean_Enter ==
    /\ op = "Mean" /\ pc = "start"
    /\ IF ~ShapesAgree(groundTruth, estimation) THEN Fail("AssertionError")
       ELSE /\ pc' = "bydep"
            /\ UNCHANGED <<k, acc, sqFrom, computed, result, err>>
    /\ UNCHANGED <<op, groundTruth, estimation, axisVars, figVars>>

\* SNRByDep_indic, lines 47-51, called directly or by SNRMean_indic
ByDep_Enter ==
    /\ \/ op = "ByDep" /\ pc = "start"
       \/ op = "Mean" /\ pc = "bydep"
    /\ IF ~ShapesAgree(groundTruth, estimation) THEN Fail("AssertionError")
       ELSE /\ pc' = "loop"
            /\ k' = 0
            /\ acc' = Zeros(Shape(estimation)[1])
            /\ UNCHANGED <<sqFrom, computed, result, err>>
    /\ UNCHANGED <<op, groundTruth, estimation, axisVars, figVars>>

\* lines 52-53, one unit
ByDep_Row ==
    /\ op \in {"ByDep", "Mean"} /\ pc = "loop" /\ k < Shape(estimation)[1]
    /\ LET r == UnitSNR(groundTruth, estimation, k)
       IN  IF r.err # "none" THEN Fail(r.err)
           ELSE /\ acc' = [acc EXCEPT ![k + 1] = r.value]
                /\ k' = k + 1
                /\ sqFrom' = r.from
                /\ computed' = computed + 1
                /\ UNCHANGED <<pc, result, err>>
    /\ UNCHANGED <<op, groundTruth, estimation, axisVars, figVars>>

\* line 54: to the caller, or back into SNRMean_indic
ByDep_Return ==
    /\ op \in {"ByDep", "Mean"} /\ pc = "loop" /\ k = Shape(estimation)[1]
    /\ IF op = "ByDep"
       THEN pc' = "done" /\ result' = acc
       ELSE pc' = "tail" /\ UNCHANGED result
    /\ UNCHANGED <<k, acc, sqFrom, computed, err>>
    /\ UNCHANGED <<op, groundTruth, estimation, axisVars, figVars>>

\* lines 69-72
Mean_Return ==
    /\ op = "Mean" /\ pc = "tail"
    /\ IF Len(acc) # Shape(estimation)[1] THEN Fail("AssertionError")
       ELSE /\ pc' = "done"
            /\ result' = MeanOfIndicators(acc, Shape(estimation)[1])
            /\ UNCHANGED <<k, acc, sqFrom, computed, err>>
    /\ UNCHANGED <<op, groundTruth, estimation, axisVars, figVars>>

\* ------------------------------------------------------------- inputs of SNR.py
HeadVals == {0, 25000, 25001, 33334}
TailVals == {0, 1}

\* 1-D series of n days: any day-0 value, small values after it
Series(n) ==
    {[i \in 1..n |-> IF i = 1 THEN h ELSE t[i - 1]] :
        h \in HeadVals, t \in [1..(n - 1) -> TailVals]}

\* 2-D arrays of at most MaxCells entries, and the 1-D series beside them
Shapes == {s \in (1..MaxCells) \X (1..MaxCells) : s[1] * s[2] <= MaxCells}
Arrays == UNION {[1..s[1] -> [1..s[2] -> TailVals]] : s \in Shapes}
Rows   == UNION {[1..n -> TailVals] : n \in 1..MaxCells}

AxisIdle ==
    /\ fn = "none" /\ days = 0 /\ firstDate = 0 /\ Ydata = <<>>
    /\ axisPc = "done" /\ axisResult = NoResult

FigIdle ==
    /\ fig = NoResult /\ figPc = "done" /\ plotted = <<>> /\ RTrueCropped = <<>>
    /\ saved = FALSE /\ returned = FALSE /\ figErr = "none"

SnrIdle ==
    /\ op = "none" /\ groundTruth = <<>> /\ estimation = <<>> /\ pc = "done"
    /\ k = 0 /\ acc = <<>> /\ sqFrom = 0 /\ computed = 0
    /\ result = NoResult /\ err = "none"

InitSNR ==
    /\ \/ /\ op = "SNR"
          /\ \E n \in 1..MaxDays, m \in 1..MaxDays :
                groundTruth \in Series(n) /\ estimation \in Series(m)
       \/ /\ op = "MC"
          /\ groundTruth \in Rows
          /\ estimation \in Arrays
       \/ /\ op \in {"ByDep", "Mean"}
          /\ groundTruth \in Arrays
          /\ estimation \in Arrays
    /\ pc = "start" /\ k = 0 /\ acc = <<>> /\ sqFrom = 0 /\ computed = 0
    /\ result = NoResult /\ err = "none"
    /\ AxisIdle /\ FigIdle

NextSNR ==
    \/ SNR_Call
    \/ MC_Enter \/ MC_Draw \/ MC_Return
    \/ Mean_Enter
    \/ ByDep_Enter \/ ByDep_Row \/ ByDep_Return
    \/ Mean_Return

SpecSNR == InitSNR /\ [][NextSNR]_vars

\* ------------------------------------------------------------- formattingFigures.py
MaxSpan == 560   \* longest date axis
MaxYLen == 3     \* longest series given to adaptiveYLimit

\* np.round(n / d) for n >= 0, d > 0: to nearest, ties to even
RoundHalfEven(n, d) ==
    LET q == n \div d
        r == n % d
    IN  IF 2 * r < d THEN q
        ELSE IF 2 * r > d THEN q + 1
        ELSE IF q % 2 = 0 THEN q ELSE q + 1

\* np.ceil(n / d) for n >= 0, d > 0
CeilDiv(n, d) == (n + d - 1) \div d

\* day 29 left as it is
NormalisedFirstDay_Not29(d) == IF d \in {30, 31} THEN 1 ELSE d

\* lines 46-47
NormalisedFirstDay(d) == IF d \in {29, 30, 31} THEN 1 ELSE d

\* the weekly mode starting one day late
adaptiveDaysLocator_LateWeekly(n, first) ==
    LET firstDay == NormalisedFirstDay(first)
    IN  IF n <= 35
        THEN [locator |-> "DayLocator", interval |-> RoundHalfEven(n, 5),
              format |-> "%d~%b~%Y"]
        ELSE IF 34 < n /\ n < 111
        THEN [locator |-> "WeekdayLocator", interval |-> RoundHalfEven(n, 35),
              byweekday |-> CeilDiv(firstDay, 7), format |-> "%d~%b~%Y"]
        ELSE IF 110 < n /\ n < 550
        THEN [locator |-> "MonthLocator", interval |-> RoundHalfEven(n, 140),
              bymonthday |-> firstDay, format |-> "%b~%Y"]
        ELSE [locator |-> "YearLocator", format |-> "%Y"]

\* lines 44-59: the locator built, with the arguments it is built from, and the
\* format of the DateFormatter
adaptiveDaysLocator(n, first) ==
    LET firstDay == NormalisedFirstDay(first)
    IN  IF n < 35
        THEN [locator |-> "DayLocator", interval |-> RoundHalfEven(n, 5),
              format |-> "%d~%b~%Y"]
        ELSE IF 34 < n /\ n < 111
        THEN [locator |-> "WeekdayLocator", interval |-> RoundHalfEven(n, 35),
              byweekday |-> CeilDiv(firstDay, 7), format |-> "%d~%b~%Y"]
        ELSE IF 110 < n /\ n < 550
        THEN [locator |-> "MonthLocator", interval |-> RoundHalfEven(n, 140),
              bymonthday |-> firstDay, format |-> "%b~%Y"]
        ELSE [locator |-> "YearLocator", format |-> "%Y"]

\* np.max(Ydata)
RECURSIVE MaxOf(_, _)
MaxOf(s, from) ==
    IF from = Len(s) THEN s[from]
    ELSE LET rest == MaxOf(s, from + 1) IN IF s[from] > rest THEN s[from] ELSE rest

\* floor(log10(m)) for an integer m >= 1
RECURSIVE FloorLog10(_)
FloorLog10(m) == IF m < 10 THEN 0 ELSE 1 + FloorLog10(m \div 10)

\* line 34: np.floor(np.log(m) / np.log(10)). The quotient of the two rounded
\* logarithms of an exact power of ten may fall just below the integer
\* (np.log(1000) / np.log(10) = 2.9999999999999996), so either floor can come out
FloorPowerTen(m) ==
    LET e == FloorLog10(m)
    IN  IF e >= 1 /\ m = Pow(10, e) THEN {e - 1, e} ELSE {e}

\* rounding down instead of up
CeilToUnit_Floor(m, unit) == (m \div unit) * unit

\* line 35: np.ceil(m / unit) * unit
CeilToUnit(m, unit) == CeilDiv(m, unit) * unit

Locator_Call ==
    /\ fn = "locator" /\ axisPc = "start"
    /\ axisResult' = adaptiveDaysLocator(days, firstDate)
    /\ axisPc' = "done"
    /\ UNCHANGED <<fn, days, firstDate, Ydata, snrVars, figVars>>

YLimit_Call ==
    /\ fn = "ylimit" /\ axisPc = "start"
    /\ \E floorPowerTen \in FloorPowerTen(MaxOf(Ydata, 1)) :
          axisResult' = [floorPowerTen |-> floorPowerTen,
                         limit |-> CeilToUnit(MaxOf(Ydata, 1), Pow(10, floorPowerTen))]
    /\ axisPc' = "done"
    /\ UNCHANGED <<fn, days, firstDate, Ydata, snrVars, figVars>>

YVals == {1, 5, 9, 10, 42, 97, 100, 101, 250, 999, 1000, 1001}

InitAxis ==
    /\ \/ /\ fn = "locator"
          /\ days \in 1..MaxSpan
          /\ firstDate \in 1..31
          /\ Ydata = <<>>
       \/ /\ fn = "ylimit"
          /\ days = 0 /\ firstDate = 0
          /\ \E n \in 1..MaxYLen : Ydata \in [1..n -> YVals]
    /\ axisPc = "start" /\ axisResult = NoResult
    /\ SnrIdle /\ FigIdle

NextAxis == Locator_Call \/ YLimit_Call

SpecAxis == InitAxis /\ [][NextAxis]_vars

\* ------------------------------------------------------------- display_figures.py
MaxDates    == 3   \* longest date axis of a figure
MaxCounties == 3   \* most counties of a 2-D figure
MaxRTrue    == 4   \* longest ground-truth series

\* RTrue[d], each entry named by its place: <<d, i>> is entry i of series d
\* (Python indices; d = 0 for the 1-D figure)
RTrueSeries(d, len) == [i \in 1..len |-> <<d, i - 1>>]

\* a[from:] for a Python index from
Slice(a, from) == [i \in 1..(Len(a) - from) |-> a[i + from]]

\* lines 107-111 and 281-285: [err, cropped]
CropRTrue(RTrue, lenData) ==
    IF Len(RTrue) # lenData
    THEN IF ~(Len(RTrue) > lenData)
         THEN [err |-> "AssertionError", cropped |-> <<>>]
         ELSE [err |-> "none", cropped |-> Slice(RTrue, Len(RTrue) - lenData)]
    ELSE [err |-> "none", cropped |-> RTrue]

\* len(data): the days of the 1-D series (line 107), the rows of the
\* (nbCounties, days) array (line 281)
LenData(f) == IF f.func = "display_REstim" THEN f.days ELSE f.nbCounties

\* the test on OEstimate inverted
RaisesNoDisplayData_Inverted(dataDisp, hasOEstimate) == ~dataDisp /\ ~hasOEstimate

\* lines 90-94 and 261-265
RaisesNoDisplayData(dataDisp, hasOEstimate) == ~dataDisp /\ hasOEstimate

Plot(what, ylen) == [what |-> what, x |-> fig.days, y |-> ylen]

FigFail(e) ==
    /\ figPc' = "failed"
    /\ figErr' = e
    /\ UNCHANGED <<RTrueCropped, saved, returned>>

\* display_REstim, lines 64-94
REstim_Data ==
    /\ fig.func = "display_REstim" /\ figPc = "start"
    /\ IF fig.dataDisp
       THEN IF fig.comparison
            THEN IF ~fig.hasOEstimate
                 THEN \* OEstimate[m] on None, after the data was plotted
                      /\ plotted' = plotted \o <<Plot("data", fig.days)>>
                      /\ FigFail("TypeError")
                 ELSE /\ plotted' = plotted \o <<Plot("data", fig.days),
                                                 Plot("denoised", fig.days),
                                                 Plot("denoised", fig.days)>>
                      /\ figPc' = "estim"
                      /\ UNCHANGED <<RTrueCropped, saved, returned, figErr>>
            ELSE /\ plotted' = plotted \o
                       (IF fig.hasOEstimate /\ fig.method[1] \in {"U", "U-O"}
                        THEN <<Plot("data", fig.days), Plot("denoised", fig.days)>>
                        ELSE <<Plot("data", fig.days)>>)
                 /\ figPc' = "estim"
                 /\ UNCHANGED <<RTrueCropped, saved, returned, figErr>>
       ELSE IF RaisesNoDisplayData(fig.dataDisp, fig.hasOEstimate)
            THEN FigFail("ValueError") /\ UNCHANGED plotted
            ELSE /\ figPc' = "estim"
                 /\ UNCHANGED <<plotted, RTrueCropped, saved, returned, figErr>>
    /\ UNCHANGED <<fig, snrVars, axisVars>>

\* lines 96-103: one plot per method (one method when comparison is false)
REstim_Estim ==
    /\ fig.func = "display_REstim" /\ figPc = "estim"
    /\ plotted' = plotted \o [i \in 1..Len(fig.method) |-> Plot("REstimate", fig.days)]
    /\ figPc' = "truth"
    /\ UNCHANGED <<fig, RTrueCropped, saved, returned, figErr, snrVars, axisVars>>

\* lines 105-112
REstim_Truth ==
    /\ fig.func = "display_REstim" /\ figPc = "truth"
    /\ IF fig.hasRTrue
       THEN LET c == CropRTrue(RTrueSeries(0, fig.lenRTrue), LenData(fig))
            IN  IF c.err # "none" THEN FigFail(c.err) /\ UNCHANGED plotted
                ELSE /\ RTrueCropped' = c.cropped
                     /\ plotted' = plotted \o <<Plot("RTrue", Len(c.cropped))>>
                     /\ figPc' = "format"
                     /\ UNCHANGED <<saved, returned, figErr>>
       ELSE /\ figPc' = "format"
            /\ UNCHANGED <<plotted, RTrueCropped, saved, returned, figErr>>
    /\ UNCHANGED <<fig, snrVars, axisVars>>

\* lines 114-148 and 288-324: axis formatting, then save (or not) and return
Finish ==
    /\ figPc' = "done"
    /\ saved' = fig.savefig
    /\ returned' = TRUE
    /\ UNCHANGED <<fig, plotted, RTrueCropped, figErr, snrVars, axisVars>>

REstim_Finish ==
    /\ fig.func = "display_REstim" /\ figPc = "format"
    /\ Finish

\* display_REstim2D, lines 232-247
REstim2D_Enter ==
    /\ fig.func = "display_REstim2D" /\ figPc = "start"
    /\ IF fig.lenCounties # fig.nbCounties
       THEN FigFail("AssertionError")
       ELSE figPc' = "data" /\ UNCHANGED <<RTrueCropped, saved, returned, figErr>>
    /\ UNCHANGED <<fig, plotted, snrVars, axisVars>>

\* lines 249-265: per county the data, then the denoised data if OEstimate is given
REstim2D_Data ==
    /\ fig.func = "display_REstim2D" /\ figPc = "data"
    /\ IF fig.dataDisp
       THEN /\ plotted' = plotted \o
                  (IF fig.hasOEstimate
                   THEN [j \in 1..(2 * fig.nbCounties) |->
                            Plot(IF j % 2 = 1 THEN "data" ELSE "denoised", fig.days)]
                   ELSE [j \in 1..fig.nbCounties |-> Plot("data", fig.days)])
            /\ figPc' = "estim"
            /\ UNCHANGED <<RTrueCropped, saved, returned, figErr>>
       ELSE IF RaisesNoDisplayData(fig.dataDisp, fig.hasOEstimate)
            THEN FigFail("ValueError") /\ UNCHANGED plotted
            ELSE /\ figPc' = "estim"
                 /\ UNCHANGED <<plotted, RTrueCropped, saved, returned, figErr>>
    /\ UNCHANGED <<fig, snrVars, axisVars>>

\* lines 267-275
REstim2D_Estim ==
    /\ fig.func = "display_REstim2D" /\ figPc = "estim"
    /\ plotted' = plotted \o [d \in 1..fig.nbCounties |-> Plot("REstimate", fig.days)]
    /\ figPc' = "truth"
    /\ UNCHANGED <<fig, RTrueCropped, saved, returned, figErr, snrVars, axisVars>>

\* lines 277-286: every series of RTrue has the same length, so the assertion
\* fails for the first county or for none
REstim2D_Truth ==
    /\ fig.func = "display_REstim2D" /\ figPc = "truth"
    /\ IF fig.hasRTrue
       THEN LET c == [d \in 1..fig.nbCounties |->
                         CropRTrue(RTrueSeries(d - 1, fig.lenRTrue), LenData(fig))]
            IN  IF c[1].err # "none" THEN FigFail(c[1].err) /\ UNCHANGED plotted
                ELSE /\ RTrueCropped' = c[fig.nbCounties].cropped
                     /\ plotted' = plotted \o
                           [d \in 1..fig.nbCounties |-> Plot("RTrue", Len(c[d].cropped))]
                     /\ figPc' = "format"
                     /\ UNCHANGED <<saved, returned, figErr>>
       ELSE /\ figPc' = "format"
            /\ UNCHANGED <<plotted, RTrueCropped, saved, returned, figErr>>
    /\ UNCHANGED <<fig, snrVars, axisVars>>

REstim2D_Finish ==
    /\ fig.func = "display_REstim2D" /\ figPc = "format"
    /\ Finish

\* ------------------------------------------------------------- inputs of the figures
Methods == {"MLE", "Gamma", "U", "U-O"}
MethodLists == {<<"U", "U-O">>, <<"MLE", "Gamma", "U", "U-O">>}

Calls1D ==
    {[func |-> "display_REstim", days |-> n, nbCounties |-> 1, lenCounties |-> 1,
      hasOEstimate |-> o, dataDisp |-> dd, comparison |-> Len(m) > 1, method |-> m,
      hasRTrue |-> l > 0, lenRTrue |-> l, savefig |-> sv] :
        n \in 1..MaxDates, o \in BOOLEAN, dd \in BOOLEAN,
        m \in {<<x>> : x \in Methods} \cup MethodLists,
        l \in 0..MaxRTrue, sv \in BOOLEAN}

Calls2D ==
    {[func |-> "display_REstim2D", days |-> n, nbCounties |-> c, lenCounties |-> lc,
      hasOEstimate |-> o, dataDisp |-> dd, comparison |-> FALSE, method |-> <<>>,
      hasRTrue |-> l > 0, lenRTrue |-> l, savefig |-> sv] :
        n \in 1..MaxDates, c \in 1..MaxCounties, lc \in 1..MaxCounties,
        o \in BOOLEAN, dd \in BOOLEAN, l \in 0..MaxRTrue, sv \in BOOLEAN}

InitFig ==
    /\ fig \in Calls1D \cup Calls2D
    /\ figPc = "start" /\ plotted = <<>> /\ RTrueCropped = <<>>
    /\ saved = FALSE /\ returned = FALSE /\ figErr = "none"
    /\ SnrIdle /\ AxisIdle

NextFig ==
    \/ REstim_Data \/ REstim_Estim \/ REstim_Truth \/ REstim_Finish
    \/ REstim2D_Enter \/ REstim2D_Data \/ REstim2D_Estim \/ REstim2D_Truth
    \/ REstim2D_Finish

SpecFig == InitFig /\ [][NextFig]_vars

\* ============================================================= claims

\* ------------------------------------------------------------- C1
\* C1: for series of equal length N >= 2 with a non-zero errorMean, index 0 is
\* left out of the squared-error sum exactly when
\* |estimation[0] - groundTruth[0]| / errorMean > 100000, whatever the sign of
\* the difference.
C1_AbsoluteOutlierTest ==
    (op = "SNR" /\ pc = "done" /\ Len(groundTruth) >= 2
        /\ SumAbsDiff(groundTruth, estimation, 2) # 0)
    => ((sqFrom = 1) <=>
            Abs(estimation[1] - groundTruth[1]) * (Len(groundTruth) - 1)
                > 100000 * SumAbsDiff(groundTruth, estimation, 2))

\* ------------------------------------------------------------- C2
InconsistentLengths ==
    CASE op = "SNR" -> Len(groundTruth) # Len(estimation)
      [] op = "MC"  -> \E i \in 1..Len(estimation) : Len(estimation[i]) # Len(groundTruth)
      [] OTHER      -> \/ Len(groundTruth) # Len(estimation)
                       \/ \E d \in 1..Len(estimation) :
                             Len(estimation[d]) # Len(groundTruth[1])

\* C2: a call of any of the four SNR functions on inputs of inconsistent
\* lengths fails at its first step with an assertion error, returns nothing,
\* and has computed no SNR term.
C2_LengthMismatchFails ==
    (InconsistentLengths /\ pc # "start")
    => /\ pc = "failed"
       /\ err = "AssertionError"
       /\ result = NoResult
       /\ computed = 0

C2_Witness ==
    /\ op = "Mean" /\ pc = "failed" /\ err = "AssertionError"
    /\ Len(groundTruth) = Len(estimation)
    /\ Len(groundTruth[1]) # Len(estimation[1])

C4_PerfectDraws ==
    (op = "MC" /\ pc = "done"
        /\ \A i \in 1..Len(estimation) : estimation[i] = groundTruth)
    => /\ result[2] = "zero"
       /\ DbEq(result[1], SignaltoNoiseRatio(groundTruth, groundTruth).value)

\* ------------------------------------------------------------- C5
RECURSIVE ProductOf(_, _, _)
ProductOf(s, field, from) ==
    IF from > Len(s) THEN 1 ELSE s[from][field] * ProductOf(s, field, from + 1)

\* x is the arithmetic mean of the dB values s: Len(s) * x = the sum of s
IsMeanOf(x, s) ==
    LET n   == Len(s)
        has(kd) == \E i \in 1..n : s[i].kind = kd
    IN  IF has("nan") \/ (has("pinf") /\ has("ninf")) THEN x = NaN
        ELSE IF has("pinf") THEN x = PInf
        ELSE IF has("ninf") THEN x = NInf
        ELSE /\ x.kind = "fin"
             /\ Pow(x.num, n) * Pow(ProductOf(s, "den", 1), x.div)
                    = Pow(ProductOf(s, "num", 1), x.div) * Pow(x.den, n)

SNROfRows ==
    [d \in 1..Len(groundTruth) |->
        SignaltoNoiseRatio(groundTruth[d], estimation[d]).value]

\* C5: on 2-D inputs of equal shape SNRByDep_indic returns nbDeps values, the
\* d-th being SignaltoNoiseRatio of row d alone, and SNRMean_indic returns the
\* arithmetic mean of these values.
C5_RowWise ==
    /\ (op = "ByDep" /\ pc = "done")
        => /\ Len(result) = Len(groundTruth)
           /\ \A d \in 1..Len(groundTruth) : result[d] = SNROfRows[d]
    /\ (op = "Mean" /\ pc = "done") => IsMeanOf(result, SNROfRows)

C5_Witness ==
    /\ op = "Mean" /\ pc = "done"
    /\ Len(groundTruth) >= 2
    /\ result.kind = "fin"
    /\ acc[1] # acc[2]

\* ------------------------------------------------------------- C6
\* the k with 10^k <= m < 10^(k+1)
OrderOfMagnitude(m) == CHOOSE e \in 0..8 : Pow(10, e) <= m /\ m < Pow(10, e + 1)

\* C6: for positive data of maximum m and k = floor(log10(m)), adaptiveYLimit
\* returns ceil(m / 10^k) * 10^k: a multiple of 10^k that is >= m and less than
\* m + 10^k.
C6_YLimit ==
    (fn = "ylimit" /\ axisPc = "done")
    => LET m    == MaxOf(Ydata, 1)
           unit == Pow(10, OrderOfMagnitude(m))
       IN  /\ \A i \in 1..Len(Ydata) : Ydata[i] <= m
           /\ axisResult.limit % unit = 0
           /\ axisResult.limit >= m
           /\ axisResult.limit < m + unit

C6_Witness ==
    /\ fn = "ylimit" /\ axisPc = "done"
    /\ Ydata = <<5, 42, 97>> /\ axisResult.limit = 100

\* ------------------------------------------------------------- C7
\* C7 as stated: in the monthly mode the ticks are anchored to the day-of-month
\* of the first date, for every first day 1..31.
C7_AnchoredToFirstDay ==
    (fn = "locator" /\ axisPc = "done" /\ 111 <= days /\ days <= 549)
    => axisResult.bymonthday = firstDate

\* C7 amended: in the monthly mode the ticks are anchored to the day-of-month
\* of the first date when it is 1..28, and to day 1 when it is 29, 30 or 31.
C7_AnchoredToNormalisedDay ==
    (fn = "locator" /\ axisPc = "done" /\ 111 <= days /\ days <= 549)
    => axisResult.bymonthday = (IF firstDate >= 29 THEN 1 ELSE firstDate)

C7_Witness ==
    /\ fn = "locator" /\ axisPc = "done"
    /\ days = 400 /\ firstDate = 29
    /\ axisResult.locator = "MonthLocator" /\ axisResult.bymonthday = 1

\* ------------------------------------------------------------- C8
OutliersWithoutData == fig.hasOEstimate /\ ~fig.dataDisp

EndsWithNoDisplayData ==
    /\ figPc \in {"start", "data", "failed"}
    /\ figPc = "failed" => figErr = "ValueError"
    /\ plotted = <<>> /\ ~saved /\ ~returned

\* C8 as stated: every call with OEstimate given and dataDisp false ends with
\* the ValueError, before any plot of an R estimate and before the save; a
\* call with OEstimate None and dataDisp false never raises it.
C8_EveryCallRaises ==
    /\ OutliersWithoutData => EndsWithNoDisplayData
    /\ (~fig.hasOEstimate /\ ~fig.dataDisp) => figErr # "ValueError"

\* C8 amended: the same for every call of display_REstim, and for every call
\* of display_REstim2D that passes its assertion len(counties) == nbCounties.
C8_CallPastEntryRaises ==
    /\ (OutliersWithoutData
            /\ (fig.func = "display_REstim2D" => fig.lenCounties = fig.nbCounties))
        => EndsWithNoDisplayData
    /\ (~fig.hasOEstimate /\ ~fig.dataDisp) => figErr # "ValueError"

C8_Witness ==
    /\ fig.func = "display_REstim2D" /\ OutliersWithoutData /\ fig.savefig
    /\ figPc = "failed" /\ figErr = "ValueError"
    /\ plotted = <<>> /\ ~saved /\ ~returned

\* ------------------------------------------------------------- C9
\* C9: when RTrue is given with series at least as long as the date axis, the
\* series plotted against the dates holds exactly the last `days` entries of
\* the series given, in display_REstim and, for every nbCounties, in
\* display_REstim2D.
C9_CroppedToDates ==
    (fig.hasRTrue /\ fig.lenRTrue >= fig.days /\ figPc \in {"format", "done"})
    => /\ Len(RTrueCropped) = fig.days
       /\ \A i \in 1..fig.days :
             RTrueCropped[i][2] = fig.lenRTrue - fig.days + i - 1

\* ------------------------------------------------------------- C10
\* C10: the interval handed to the daily, weekly or monthly locator is an
\* integer >= 1 for every days >= 1.
C10_IntervalPositive ==
    (fn = "locator" /\ axisPc = "done" /\ days <= 549) => axisResult.interval >= 1

====
